---- MODULE Spec2Model ----
(***************************************************************************)
(* Model of src/mountinfo.c (OpenRC "mountinfo" applet).                   *)
(*                                                                         *)
(* One invocation is modelled as a linear state machine: option parsing    *)
(* (getopt loop), positional arguments, enumeration of the mount table     *)
(* (one step per table line / entry, each running process_mount), the      *)
(* clean-up and reversal, the point-filter/output loop and exit.           *)
(*                                                                         *)
(* C strings are tuples of byte values, so that strcmp is the byte-wise    *)
(* lexicographic order and strsep / regexec work on real characters.       *)
(***************************************************************************)
EXTENDS Integers, Sequences, FiniteSets, TLC

VARIABLES
    platform,          \* build: "linux" (#ifdef __linux__) or "bsd" (#ifdef BSD)
    RC_QUIET,          \* the environment variable, "unread" until first read
    pc,                \* position in mountinfo()
    nopts,             \* number of options getopt_long has returned so far
    args,              \* struct args
    point_regex,       \* regex_t *point_regex
    skip_point_regex,  \* regex_t *skip_point_regex
    nread,             \* find_mounts: number of lines / entries read so far
    mnts,              \* the set of the lines / entries that have been read
    nodes,             \* char **nodes (inside find_mounts: char **list)
    last,              \* find_mounts: its last call of process_mount
    ub,                \* TRUE once a NULL pointer has been dereferenced
    i,                 \* index of STRLIST_FOREACH (nodes, n, i)
    result,            \* int result
    out,               \* the lines written to stdout
    status,            \* exit status of the process, "running" before it ends
    fatal,             \* the error eerrorx ended the process with, or "none"
    heap               \* accounting of regcomp/regfree and rc_strlist_free

vars == <<platform, RC_QUIET, pc, nopts, args, point_regex, skip_point_regex,
          nread, mnts, nodes, last, ub, i, result, out, status, fatal, heap>>

-----------------------------------------------------------------------------
(* Bounds of the model *)

MaxOpts == 2      \* options on the command line
MaxArgs == 1      \* positional arguments on the command line
MaxMounts == 2    \* lines of /proc/mounts, entries of getmntinfo

-----------------------------------------------------------------------------
(* C strings *)

\* The NULL pointer: no C string holds a NUL byte, so <<0>> is no string.
NULL == <<0>>

str_rootfs == <<114, 111, 111, 116, 102, 115>>                   \* "rootfs"

\* regex patterns given on the command line
re_ext == <<94, 101, 120, 116>>                                  \* "^ext"
re_tmpfs == <<116, 109, 112, 102, 115>>                          \* "tmpfs"
re_dev == <<94, 47, 100, 101, 118>>                              \* "^/dev"
re_devloop == <<94, 47, 100, 101, 118, 47, 108, 111, 111, 112>>  \* "^/dev/loop"
re_nosuid == <<110, 111, 115, 117, 105, 100>>                    \* "nosuid"
re_noexec == <<110, 111, 101, 120, 101, 99>>                     \* "noexec"
re_mnt == <<94, 47, 109, 110, 116>>                              \* "^/mnt"
re_fs == <<102, 115>>                                            \* "fs"
re_bad == <<40>>                                                 \* "("

\* positional arguments, besides "/"
arg_mnt_dat == <<47, 109, 110, 116, 47, 100, 97, 116>>           \* "/mnt/dat"
arg_relative == <<109, 110, 116, 47, 100, 97, 116, 97>>          \* "mnt/data"

\* lines of /proc/mounts
\* "/dev/sda1 / ext4 rw 0 0\n"
line_sda1 == <<47, 100, 101, 118, 47, 115, 100, 97, 49, 32, 47, 32, 101, 120,
               116, 52, 32, 114, 119, 32, 48, 32, 48, 10>>
\* "tmpfs /run tmpfs rw,nosuid 0 0\n"
line_tmpfs == <<116, 109, 112, 102, 115, 32, 47, 114, 117, 110, 32, 116, 109,
                112, 102, 115, 32, 114, 119, 44, 110, 111, 115, 117, 105, 100,
                32, 48, 32, 48, 10>>
\* "rootfs / rootfs rw 0 0\n"
line_rootfs == <<114, 111, 111, 116, 102, 115, 32, 47, 32, 114, 111, 111, 116,
                 102, 115, 32, 114, 119, 32, 48, 32, 48, 10>>
\* "/dev/loop0 /mnt/data ext4 ro,noexec 0 0\n"
line_loop0 == <<47, 100, 101, 118, 47, 108, 111, 111, 112, 48, 32, 47, 109,
                110, 116, 47, 100, 97, 116, 97, 32, 101, 120, 116, 52, 32,
                114, 111, 44, 110, 111, 101, 120, 101, 99, 32, 48, 32, 48, 10>>
\* "tmpfs /run tmpfs\n": three fields
line_3fields == <<116, 109, 112, 102, 115, 32, 47, 114, 117, 110, 32, 116,
                  109, 112, 102, 115, 10>>
\* "none /proc\n": two fields
line_2fields == <<110, 111, 110, 101, 32, 47, 112, 114, 111, 99, 10>>

\* fields of struct statfs
s_dev_sda1 == <<47, 100, 101, 118, 47, 115, 100, 97, 49>>        \* "/dev/sda1"
s_dev_loop0 == <<47, 100, 101, 118, 47, 108, 111, 111, 112, 48>> \* "/dev/loop0"
s_tmpfs == <<116, 109, 112, 102, 115>>                           \* "tmpfs"
s_slash == <<47>>                                                \* "/"
s_run == <<47, 114, 117, 110>>                                   \* "/run"
s_mnt_data == <<47, 109, 110, 116, 47, 100, 97, 116, 97>>        \* "/mnt/data"
s_ext4 == <<101, 120, 116, 52>>                                  \* "ext4"

\* strcmp (a, b): negative, zero or positive, comparing byte by byte
RECURSIVE strcmp(_, _)
strcmp(a, b) ==
    IF a = <<>> /\ b = <<>> THEN 0
    ELSE IF a = <<>> THEN -1
    ELSE IF b = <<>> THEN 1
    ELSE IF Head(a) < Head(b) THEN -1
    ELSE IF Head(a) > Head(b) THEN 1
    ELSE strcmp(Tail(a), Tail(b))

\* strsep (&p, " "): the token up to the first space, and what follows it
strsep(p) ==
    IF p = NULL THEN [tok |-> NULL, rest |-> NULL]
    ELSE IF \E k \in 1..Len(p) : p[k] = 32
         THEN LET k == CHOOSE k \in 1..Len(p) :
                         p[k] = 32 /\ \A j \in 1..(k - 1) : p[j] # 32
              IN [tok |-> SubSeq(p, 1, k - 1), rest |-> SubSeq(p, k + 1, Len(p))]
         ELSE [tok |-> p, rest |-> NULL]

-----------------------------------------------------------------------------
(* regex.h, restricted to the patterns of the model: an optional leading   *)
(* '^' followed by ordinary characters.  A compiled regex_t is represented *)
(* by its pattern; a regex_t pointer is a pattern or NULL.                 *)

\* regcomp (reg, string, REG_EXTENDED | REG_NOSUB) == 0: an unmatched
\* parenthesis is the compile error of the model
regcomp(string) ==
    Cardinality({k \in 1..Len(string) : string[k] = 40}) =
    Cardinality({k \in 1..Len(string) : string[k] = 41})

\* regexec (reg, s, 0, NULL, 0) == 0
regexec(reg, s) ==
    LET anchored == reg # <<>> /\ Head(reg) = 94
        lit == IF anchored THEN Tail(reg) ELSE reg
    IN  IF anchored
        THEN Len(lit) <= Len(s) /\ SubSeq(s, 1, Len(lit)) = lit
        ELSE \E k \in 0..(Len(s) - Len(lit)) : SubSeq(s, k + 1, k + Len(lit)) = lit

-----------------------------------------------------------------------------
(* strlist.h: the string list container.  A NULL list is the empty list.   *)

\* rc_strlist_add (&list, item): append
rc_strlist_add(list, item) == Append(list, item)

\* rc_strlist_addsortc (&list, item): insert keeping the list ascending in
\* strcmp order; an item already in the list is not inserted again
rc_strlist_addsortc(list, item) ==
    IF \E k \in 1..Len(list) : list[k] = item THEN list
    ELSE LET n == Cardinality({k \in 1..Len(list) : strcmp(list[k], item) < 0})
         IN SubSeq(list, 1, n) \o <<item>> \o SubSeq(list, n + 1, Len(list))

\* rc_strlist_reverse (list)
rc_strlist_reverse(list) == [k \in 1..Len(list) |-> list[Len(list) + 1 - k]]

-----------------------------------------------------------------------------
(* process_mount *)

mount_types == {"mount_from", "mount_to", "mount_fstype", "mount_options"}

\* What a call of process_mount did: its return value, the list after it,
\* the check it returned from, and whether it ended the process (SIGSEGV on
\* a NULL pointer) or read through a NULL pointer at all.
Returned(r, l, at, deref) ==
    [ret |-> r, list |-> l, stage |-> at, crashed |-> FALSE, deref |-> deref]

Crashed(l, at) ==
    [ret |-> 0, list |-> l, stage |-> at, crashed |-> TRUE, deref |-> TRUE]

\* strcmp (a, b) == 0 where a may be NULL: reading through NULL is undefined;
\* u is what the build makes of it ("crash", "match" or "nomatch")
streq(a, b, u) == IF a = NULL THEN u = "match" ELSE strcmp(a, b) = 0

\* regexec (reg, s, 0, NULL, 0) == 0 where s may be NULL
regmatch(reg, s, u) == IF s = NULL THEN u = "match" ELSE regexec(reg, s)

\* the switch (args->mount_type)
selected(mount_type, from, to, fstype, options) ==
    CASE mount_type = "mount_from" -> from
      [] mount_type = "mount_to" -> to
      [] mount_type = "mount_fstype" -> fstype
      [] mount_type = "mount_options" -> options
      [] OTHER -> NULL

\* is_rootfs with the rootfs test left out
is_rootfs_unchecked(fstype, u) == FALSE

\* #ifdef __linux__: strcmp (fstype, "rootfs") == 0
is_rootfs(fstype, u) == platform = "linux" /\ streq(fstype, str_rootfs, u)

\* mounts_found comparing only the first strlen (mnt) bytes
mounts_found_by_prefix(mounts, to, u) ==
    \E j \in 1..Len(mounts) :
        IF to = NULL THEN u = "match"
        ELSE /\ Len(mounts[j]) <= Len(to)
             /\ SubSeq(to, 1, Len(mounts[j])) = mounts[j]

\* STRLIST_FOREACH (args->mounts, mnt, j) if (strcmp (mnt, to) == 0) found
mounts_found(mounts, to, u) ==
    \E j \in 1..Len(mounts) : streq(to, mounts[j], u)

\* accumulate with a sorted insertion that keeps an item already there
accumulate_keeping_duplicates(list, p) ==
    LET n == Cardinality({k \in 1..Len(list) : strcmp(list[k], p) < 0})
    IN SubSeq(list, 1, n) \o <<p>> \o SubSeq(list, n + 1, Len(list))

\* rc_strlist_addsortc (list, p)
accumulate(list, p) == rc_strlist_addsortc(list, p)

process_mount(list, a, from, to, fstype, options, u) ==
    LET d1 == platform = "linux" /\ fstype = NULL
        n1 == a.node_regex # NULL
        n2 == a.skip_node_regex # NULL
        f1 == a.fstype_regex # NULL
        f2 == a.skip_fstype_regex # NULL
        o1 == a.options_regex # NULL
        o2 == a.skip_options_regex # NULL
        m == a.mounts # <<>>
        d2 == d1 \/ ((n1 \/ n2) /\ from = NULL)
        d3 == d2 \/ (f1 /\ fstype = NULL)
        d4 == d3 \/ (f2 /\ fstype = NULL)
        d5 == d4 \/ (o1 /\ options = NULL)
        d6 == d5 \/ (o2 /\ options = NULL)
        d7 == d6 \/ (m /\ to = NULL)
        p == selected(a.mount_type, from, to, fstype, options)
    IN  IF d1 /\ u = "crash" THEN Crashed(list, "rootfs")
        ELSE IF is_rootfs(fstype, u)
            THEN Returned(-1, list, "rootfs", d1)
        ELSE IF n1 /\ from = NULL /\ u = "crash" THEN Crashed(list, "node_regex")
        ELSE IF n1 /\ ~regmatch(a.node_regex, from, u)
            THEN Returned(1, list, "node_regex", d2)
        ELSE IF n2 /\ from = NULL /\ u = "crash"
            THEN Crashed(list, "skip_node_regex")
        ELSE IF n2 /\ regmatch(a.skip_node_regex, from, u)
            THEN Returned(1, list, "skip_node_regex", d2)
        ELSE IF f1 /\ fstype = NULL /\ u = "crash"
            THEN Crashed(list, "fstype_regex")
        ELSE IF f1 /\ ~regmatch(a.fstype_regex, fstype, u)
            THEN Returned(-1, list, "fstype_regex", d3)
        ELSE IF f2 /\ fstype = NULL /\ u = "crash"
            THEN Crashed(list, "skip_fstype_regex")
        ELSE IF f2 /\ regmatch(a.skip_fstype_regex, fstype, u)
            THEN Returned(-1, list, "skip_fstype_regex", d4)
        ELSE IF o1 /\ options = NULL /\ u = "crash"
            THEN Crashed(list, "options_regex")
        ELSE IF o1 /\ ~regmatch(a.options_regex, options, u)
            THEN Returned(-1, list, "options_regex", d5)
        ELSE IF o2 /\ options = NULL /\ u = "crash"
            THEN Crashed(list, "skip_options_regex")
        ELSE IF o2 /\ regmatch(a.skip_options_regex, options, u)
            THEN Returned(-1, list, "skip_options_regex", d6)
        ELSE IF m /\ to = NULL /\ u = "crash" THEN Crashed(list, "mounts")
        ELSE IF m /\ ~mounts_found(a.mounts, to, u)
            THEN Returned(-1, list, "mounts", d7)
        ELSE IF p # NULL
            THEN Returned(0, accumulate(list, p), "added", d7)
        ELSE Returned(-1, list, "select", d7)

-----------------------------------------------------------------------------
(* find_mounts, BSD: getmntinfo and the flag names *)

\* The table optnames[], in its order; a flag bit is named by its macro.
\* The closing { 0, NULL } entry is the end of the sequence.
optnames == <<
    [o_opt |-> "MNT_ASYNC",
     o_name |-> <<97, 115, 121, 110, 99, 104, 114, 111, 110, 111, 117, 115>>],
    [o_opt |-> "MNT_EXPORTED",
     o_name |-> <<78, 70, 83, 32, 101, 120, 112, 111, 114, 116, 101, 100>>],
    [o_opt |-> "MNT_LOCAL", o_name |-> <<108, 111, 99, 97, 108>>],
    [o_opt |-> "MNT_NOATIME", o_name |-> <<110, 111, 97, 116, 105, 109, 101>>],
    [o_opt |-> "MNT_NOEXEC", o_name |-> <<110, 111, 101, 120, 101, 99>>],
    [o_opt |-> "MNT_NOSUID", o_name |-> <<110, 111, 115, 117, 105, 100>>],
    [o_opt |-> "MNT_NOSYMFOLLOW",
     o_name |-> <<110, 111, 115, 121, 109, 102, 111, 108, 108, 111, 119>>],
    [o_opt |-> "MNT_QUOTA",
     o_name |-> <<119, 105, 116, 104, 32, 113, 117, 111, 116, 97, 115>>],
    [o_opt |-> "MNT_RDONLY",
     o_name |-> <<114, 101, 97, 100, 45, 111, 110, 108, 121>>],
    [o_opt |-> "MNT_SYNCHRONOUS",
     o_name |-> <<115, 121, 110, 99, 104, 114, 111, 110, 111, 117, 115>>],
    [o_opt |-> "MNT_UNION", o_name |-> <<117, 110, 105, 111, 110>>],
    [o_opt |-> "MNT_NOCLUSTERR",
     o_name |-> <<110, 111, 99, 108, 117, 115, 116, 101, 114, 114>>],
    [o_opt |-> "MNT_NOCLUSTERW",
     o_name |-> <<110, 111, 99, 108, 117, 115, 116, 101, 114, 119>>],
    [o_opt |-> "MNT_SUIDDIR", o_name |-> <<115, 117, 105, 100, 100, 105, 114>>],
    [o_opt |-> "MNT_SOFTDEP",
     o_name |-> <<115, 111, 102, 116, 45, 117, 112, 100, 97, 116, 101, 115>>],
    [o_opt |-> "MNT_MULTILABEL",
     o_name |-> <<109, 117, 108, 116, 105, 108, 97, 98, 101, 108>>],
    [o_opt |-> "MNT_ACLS", o_name |-> <<97, 99, 108, 115>>] >>

\* f_flags is the set of the flag bits that are set.  MNT_VISFLAGMASK holds
\* every flag of the table and flags the table does not name.
MNT_VISFLAGMASK ==
    {optnames[k].o_opt : k \in 1..Len(optnames)} \cup {"MNT_ROOTFS", "MNT_USER"}

\* for (o = optnames; flags && o->o_opt; o++): the options string built
\* from entry o of the table on, NULL while nothing has matched
RECURSIVE optloop(_, _, _)
optloop(o, flags, options) ==
    IF flags = {} \/ o > Len(optnames) THEN options
    ELSE optloop(o + 1, flags \ {optnames[o].o_opt},
                 IF optnames[o].o_opt \in flags
                 THEN IF options = NULL
                      THEN optnames[o].o_name
                      ELSE options \o <<44>> \o optnames[o].o_name
                 ELSE options)

\* the options string find_mounts hands to process_mount for an entry
mount_options(f_flags) == optloop(1, f_flags \cap MNT_VISFLAGMASK, NULL)

\* the entries getmntinfo may return
Entries == {
    [f_mntfromname |-> s_dev_sda1, f_mntonname |-> s_slash,
     f_fstypename |-> s_ext4, f_flags |-> {"MNT_LOCAL"}],
    [f_mntfromname |-> s_tmpfs, f_mntonname |-> s_run,
     f_fstypename |-> s_tmpfs, f_flags |-> {"MNT_NOSUID", "MNT_LOCAL"}],
    [f_mntfromname |-> s_dev_loop0, f_mntonname |-> s_mnt_data,
     f_fstypename |-> s_ext4,
     f_flags |-> {"MNT_RDONLY", "MNT_NOEXEC", "MNT_ROOTFS", "MNT_UPDATE"}],
    [f_mntfromname |-> s_tmpfs, f_mntonname |-> s_run,
     f_fstypename |-> s_tmpfs, f_flags |-> {}] }

-----------------------------------------------------------------------------
(* find_mounts, Linux: /proc/mounts *)

\* the four strsep calls on one line of the table
parse_line(buffer) ==
    LET s1 == strsep(buffer)
        s2 == strsep(s1.rest)
        s3 == strsep(s2.rest)
        s4 == strsep(s3.rest)
    IN [from |-> s1.tok, to |-> s2.tok, fst |-> s3.tok, opts |-> s4.tok]

\* the lines /proc/mounts may hold
Lines == {line_sda1, line_tmpfs, line_rootfs, line_loop0,
          line_3fields, line_2fields}

\* what reading through a NULL pointer may do
UBOutcomes == {"crash", "match", "nomatch"}

\* the outcomes a call with these fields can read: with no NULL field none
\* is read, and one stands for all
outcomes(fields) ==
    IF \E f \in fields : f = NULL THEN UBOutcomes ELSE {"crash"}

-----------------------------------------------------------------------------
(* mountinfo: the command line *)

RegexOpts == {"f", "F", "n", "N", "o", "O", "p", "P"}

\* the patterns the model gives each regex option; "(" does not compile
Patterns(opt) ==
    {re_bad} \cup
    CASE opt = "f" -> {re_ext, re_fs}
      [] opt = "F" -> {re_tmpfs}
      [] opt = "n" -> {re_dev}
      [] opt = "N" -> {re_devloop}
      [] opt = "o" -> {re_nosuid}
      [] opt = "O" -> {re_noexec}
      [] opt = "p" -> {re_mnt, re_ext}
      [] opt = "P" -> {re_tmpfs}

\* the positional arguments the model gives
Arguments == {s_slash, arg_mnt_dat, arg_relative}

\* the variable DO_REG assigns for an option
regex_var(opt) ==
    CASE opt = "f" -> "fstype_regex"
      [] opt = "F" -> "skip_fstype_regex"
      [] opt = "n" -> "node_regex"
      [] opt = "N" -> "skip_node_regex"
      [] opt = "o" -> "options_regex"
      [] opt = "O" -> "skip_options_regex"
      [] opt = "p" -> "point_regex"
      [] opt = "P" -> "skip_point_regex"

args_regexes == {"fstype_regex", "skip_fstype_regex", "node_regex",
                 "skip_node_regex", "options_regex", "skip_options_regex"}

regex_value(var) ==
    CASE var = "point_regex" -> point_regex
      [] var = "skip_point_regex" -> skip_point_regex
      [] OTHER -> args[var]

\* case 'i', 's', 't'
select_type(opt) ==
    CASE opt = "i" -> "mount_options"
      [] opt = "s" -> "mount_fstype"
      [] opt = "t" -> "mount_from"

\* is_mount_point without the test of the first byte
is_mount_point_unchecked(arg) == TRUE

\* argv[optind][0] != '/' is the usage error
is_mount_point(arg) == arg # <<>> /\ arg[1] = 47

\* eerrorx: the diagnostic, then exit (EXIT_FAILURE)
eerrorx(why) ==
    /\ pc' = "exited"
    /\ status' = "EXIT_FAILURE"
    /\ fatal' = why

\* no call of process_mount is under way: the loop of find_mounts has not
\* started, or find_mounts has returned and its locals are gone
no_call ==
    [called |-> FALSE, mnt |-> NULL, from |-> NULL, to |-> NULL,
     fstype |-> NULL, options |-> NULL, ret |-> 0, stage |-> "none",
     before |-> <<>>]

Init ==
    /\ platform \in {"linux", "bsd"}
    /\ RC_QUIET = "unread"
    /\ pc = "getopt"
    /\ nopts = 0
    /\ args = [node_regex |-> NULL, skip_node_regex |-> NULL,
               fstype_regex |-> NULL, skip_fstype_regex |-> NULL,
               options_regex |-> NULL, skip_options_regex |-> NULL,
               mounts |-> <<>>, mount_type |-> "mount_to"]
    /\ point_regex = NULL
    /\ skip_point_regex = NULL
    /\ nread = 0
    /\ mnts = {}
    /\ nodes = <<>>
    /\ last = no_call
    /\ ub = FALSE
    /\ i = 0
    /\ result = "EXIT_FAILURE"
    /\ out = <<>>
    /\ status = "running"
    /\ fatal = "none"
    /\ heap = [compiled |-> 0, regfreed |-> 0, dropped |-> 0, lists_freed |-> {}]

\* case 'f' ... 'P': DO_REG (_var), with get_regex
getopt_regex(opt, optarg) ==
    /\ pc = "getopt"
    /\ nopts < MaxOpts
    /\ nopts' = nopts + 1
    /\ LET var == regex_var(opt)
           held == regex_value(var) # NULL
           ok == regcomp(optarg)
       IN /\ heap' = [heap EXCEPT
                        !.dropped = IF held THEN @ + 1 ELSE @,
                        !.compiled = IF ok THEN @ + 1 ELSE @]
          /\ IF ok
             THEN /\ args' = IF var \in args_regexes
                             THEN [args EXCEPT ![var] = optarg] ELSE args
                  /\ point_regex' = IF var = "point_regex"
                                    THEN optarg ELSE point_regex
                  /\ skip_point_regex' = IF var = "skip_point_regex"
                                         THEN optarg ELSE skip_point_regex
                  /\ UNCHANGED <<pc, status, fatal>>
             ELSE /\ eerrorx("invalid regex")
                  /\ UNCHANGED <<args, point_regex, skip_point_regex>>
    /\ UNCHANGED <<platform, RC_QUIET, nread, mnts, nodes, last, ub, i, result, out>>

\* case 'i', 's', 't'
getopt_select(opt) ==
    /\ pc = "getopt"
    /\ nopts < MaxOpts
    /\ nopts' = nopts + 1
    /\ args' = [args EXCEPT !.mount_type = select_type(opt)]
    /\ UNCHANGED <<platform, RC_QUIET, pc, point_regex, skip_point_regex, nread, mnts,
                   nodes, last, ub, i, result, out, status, fatal, heap>>

\* getopt_long returns -1
getopt_end ==
    /\ pc = "getopt"
    /\ pc' = "args"
    /\ UNCHANGED <<platform, RC_QUIET, nopts, args, point_regex, skip_point_regex,
                   nread, mnts, nodes, last, ub, i, result, out, status, fatal, heap>>

\* while (optind < argc): one positional argument
add_mount(arg) ==
    /\ pc = "args"
    /\ is_mount_point(arg) => Len(args.mounts) < MaxArgs
    /\ IF is_mount_point(arg)
       THEN /\ args' = [args EXCEPT !.mounts = rc_strlist_add(@, arg)]
            /\ UNCHANGED <<pc, status, fatal>>
       ELSE /\ eerrorx("not a mount point")
            /\ UNCHANGED args
    /\ UNCHANGED <<platform, RC_QUIET, nopts, point_regex, skip_point_regex, nread, mnts,
                   nodes, last, ub, i, result, out, heap>>

\* optind == argc; find_mounts opens /proc/mounts or calls getmntinfo
find_mounts_open(ok) ==
    /\ pc = "args"
    /\ IF ok
       THEN /\ pc' = "enumerate"
            /\ UNCHANGED <<status, fatal>>
       ELSE eerrorx("getmntinfo")
    /\ UNCHANGED <<platform, RC_QUIET, nopts, args, point_regex, skip_point_regex,
                   nread, mnts, nodes, last, ub, i, result, out, heap>>

\* one call of process_mount from the enumeration loop
call_process_mount(mnt, from, to, fstype, options, u) ==
    LET r == process_mount(nodes, args, from, to, fstype, options, u)
    IN /\ nodes' = r.list
       /\ last' = [called |-> TRUE, mnt |-> mnt, from |-> from, to |-> to,
                   fstype |-> fstype, options |-> options, ret |-> r.ret,
                   stage |-> r.stage, before |-> nodes]
       /\ ub' = (ub \/ r.deref)
       /\ IF r.crashed
          THEN /\ pc' = "exited"
               /\ status' = "SIGSEGV"
          ELSE UNCHANGED <<pc, status>>

\* while (fgets (buffer, sizeof (buffer), fp)): one line
find_mounts_linux(buffer, u) ==
    /\ pc = "enumerate"
    /\ platform = "linux"
    /\ nread < MaxMounts
    /\ nread' = nread + 1
    /\ mnts' = mnts \cup {buffer}
    /\ LET f == parse_line(buffer)
       IN call_process_mount(buffer, f.from, f.to, f.fst, f.opts, u)
    /\ UNCHANGED <<platform, RC_QUIET, nopts, args, point_regex, skip_point_regex,
                   i, result, out, fatal, heap>>

\* for (i = 0; i < nread; i++): one entry
find_mounts_bsd(mnt, u) ==
    /\ pc = "enumerate"
    /\ platform = "bsd"
    /\ nread < MaxMounts
    /\ nread' = nread + 1
    /\ mnts' = mnts \cup {mnt}
    /\ call_process_mount(mnt, mnt.f_mntfromname, mnt.f_mntonname, mnt.f_fstypename,
                          mount_options(mnt.f_flags), u)
    /\ UNCHANGED <<platform, RC_QUIET, nopts, args, point_regex, skip_point_regex,
                   i, result, out, fatal, heap>>

\* reversed without the reversal
reversed_missing(list) == list

\* rc_strlist_reverse (nodes)
reversed(list) == rc_strlist_reverse(list)

\* find_mounts returns; the regfree calls, the reversal, result = EXIT_FAILURE
find_mounts_return ==
    /\ pc = "enumerate"
    /\ platform = "bsd" => nread > 0
    /\ heap' = [heap EXCEPT !.regfreed =
                   @ + Cardinality({v \in args_regexes : args[v] # NULL})]
    /\ nodes' = reversed(nodes)
    /\ result' = "EXIT_FAILURE"
    /\ i' = 1
    /\ pc' = "output"
    /\ nread' = 0
    /\ last' = no_call
    /\ UNCHANGED <<platform, RC_QUIET, nopts, args, point_regex, skip_point_regex,
                   mnts, ub, out, status, fatal>>

\* the two regexec tests of the output loop: TRUE when n is not skipped
point_filter(n, reg, skip_reg) ==
    /\ reg # NULL => regexec(reg, n)
    /\ skip_reg # NULL => ~regexec(skip_reg, n)

\* break instead of continue: the loop ends at the skipped value
break_loop(k, list) == Len(list) + 1

\* continue: the loop goes on with the next value
continue(k, list) == k + 1

\* emit with result = EXIT_SUCCESS inside the if, next to the printf
emit_only_when_printed(o, n, q) ==
    [out |-> IF ~q THEN Append(o, n) ELSE o,
     result |-> IF ~q THEN "EXIT_SUCCESS" ELSE result]

\* if (! rc_is_env ("RC_QUIET", "yes")) printf; result = EXIT_SUCCESS
emit(o, n, q) ==
    [out |-> IF ~q THEN Append(o, n) ELSE o, result |-> "EXIT_SUCCESS"]

\* rc_is_env ("RC_QUIET", "yes")
rc_is_env(value) == value = "yes"

\* STRLIST_FOREACH (nodes, n, i): a value one of the regexec tests skips
output_skip ==
    /\ pc = "output"
    /\ i <= Len(nodes)
    /\ ~point_filter(nodes[i], point_regex, skip_point_regex)
    /\ i' = continue(i, nodes)
    /\ UNCHANGED <<platform, RC_QUIET, pc, nopts, args, point_regex,
                   skip_point_regex, nread, mnts, nodes, last, ub, result, out,
                   status, fatal, heap>>

\* STRLIST_FOREACH (nodes, n, i): a value that passes both tests; env is the
\* value of RC_QUIET, which stays what the first read found
output_emit(env) ==
    /\ pc = "output"
    /\ i <= Len(nodes)
    /\ point_filter(nodes[i], point_regex, skip_point_regex)
    /\ RC_QUIET \in {"unread", env}
    /\ RC_QUIET' = env
    /\ out' = emit(out, nodes[i], rc_is_env(env)).out
    /\ result' = emit(out, nodes[i], rc_is_env(env)).result
    /\ i' = i + 1
    /\ UNCHANGED <<platform, pc, nopts, args, point_regex, skip_point_regex,
                   nread, mnts, nodes, last, ub, status, fatal, heap>>

\* rc_strlist_free (nodes); regfree of the point regexes; exit (result)
output_exit ==
    /\ pc = "output"
    /\ i > Len(nodes)
    /\ heap' = [heap EXCEPT
                  !.lists_freed = @ \cup {"nodes"},
                  !.regfreed = @ + (IF point_regex # NULL THEN 1 ELSE 0)
                                 + (IF skip_point_regex # NULL THEN 1 ELSE 0)]
    /\ status' = result
    /\ pc' = "exited"
    /\ UNCHANGED <<platform, RC_QUIET, nopts, args, point_regex, skip_point_regex,
                   nread, mnts, nodes, last, ub, i, result, out, fatal>>

Next ==
    \/ \E opt \in RegexOpts : \E optarg \in Patterns(opt) : getopt_regex(opt, optarg)
    \/ \E opt \in {"i", "s", "t"} : getopt_select(opt)
    \/ getopt_end
    \/ \E arg \in Arguments : add_mount(arg)
    \/ \E ok \in BOOLEAN : find_mounts_open(ok)
    \/ \E buffer \in Lines :
          \E u \in outcomes({parse_line(buffer).fst, parse_line(buffer).opts,
                             parse_line(buffer).to}) :
             find_mounts_linux(buffer, u)
    \/ \E mnt \in Entries :
          \E u \in outcomes({mount_options(mnt.f_flags)}) :
             find_mounts_bsd(mnt, u)
    \/ find_mounts_return
    \/ output_skip
    \/ \E env \in {"yes", "no"} : output_emit(env)
    \/ output_exit

Spec == Init /\ [][Next]_vars

-----------------------------------------------------------------------------
(* Properties *)

Range(seq) == {seq[k] : k \in 1..Len(seq)}

quiet == rc_is_env(RC_QUIET)

\* a value of the set passes the point filter
Survives(n) ==
    /\ point_regex # NULL => regexec(point_regex, n)
    /\ skip_point_regex # NULL => ~regexec(skip_point_regex, n)

\* the values of a list that pass the point filter, in the list's order
RECURSIVE SurvivorSeq(_)
SurvivorSeq(list) ==
    IF list = <<>> THEN <<>>
    ELSE IF Survives(Head(list)) THEN <<Head(list)>> \o SurvivorSeq(Tail(list))
    ELSE SurvivorSeq(Tail(list))

\* the invocation reached the output stage and left through exit (result)
NormalExit == pc = "exited" /\ fatal = "none" /\ status # "SIGSEGV"

\* C1: an invocation that reaches the output stage exits with status 0 if
\* and only if at least one value of the set survived the point filter, and
\* nonzero otherwise; quiet only decides whether lines are written (none
\* when quiet), never the exit status.
ExitStatusReflectsSurvival ==
    NormalExit =>
        /\ status \in {"EXIT_SUCCESS", "EXIT_FAILURE"}
        /\ status = "EXIT_SUCCESS" <=> \E k \in 1..Len(nodes) : Survives(nodes[k])
        /\ quiet => out = <<>>
        /\ ~quiet => (out # <<>> <=> status = "EXIT_SUCCESS")

QuietSuccessWitness ==
    NormalExit /\ quiet /\ status = "EXIT_SUCCESS" /\ out = <<>> /\ nodes # <<>>

\* C2: the selection set never holds two equal strings, so records that
\* select the same value produce one output line for it.
NoDuplicates ==
    /\ \A j, k \in 1..Len(nodes) : j # k => nodes[j] # nodes[k]
    /\ \A j, k \in 1..Len(out) : j # k => out[j] # out[k]

DuplicateCollapsedWitness ==
    /\ pc = "enumerate"
    /\ nread = 2 /\ Cardinality(mnts) = 2
    /\ args.mount_type = "mount_fstype"
    /\ last.stage = "added" /\ last.before = <<s_ext4>>
    /\ nodes = last.before

\* the parsed record of a line or entry of the table
record_of(mnt) ==
    IF platform = "linux"
    THEN LET f == parse_line(mnt)
         IN [from |-> f.from, to |-> f.to, fstype |-> f.fst, options |-> f.opts]
    ELSE [from |-> mnt.f_mntfromname, to |-> mnt.f_mntonname,
          fstype |-> mnt.f_fstypename, options |-> mount_options(mnt.f_flags)]

field_of(r, mount_type) ==
    CASE mount_type = "mount_from" -> r.from
      [] mount_type = "mount_to" -> r.to
      [] mount_type = "mount_fstype" -> r.fstype
      [] mount_type = "mount_options" -> r.options

Artifact(r) == platform = "linux" /\ r.fstype = str_rootfs

NoFilters ==
    /\ \A v \in args_regexes : args[v] = NULL
    /\ point_regex = NULL /\ skip_point_regex = NULL
    /\ args.mounts = <<>>

Ascending(list) ==
    \A k \in 1..(Len(list) - 1) : strcmp(list[k], list[k + 1]) < 0

Descending(list) ==
    \A k \in 1..(Len(list) - 1) : strcmp(list[k], list[k + 1]) > 0

Accepts(r) ==
    /\ ~Artifact(r)
    /\ args.node_regex # NULL => regexec(args.node_regex, r.from)
    /\ args.skip_node_regex # NULL => ~regexec(args.skip_node_regex, r.from)
    /\ args.fstype_regex # NULL => regexec(args.fstype_regex, r.fstype)
    /\ args.skip_fstype_regex # NULL => ~regexec(args.skip_fstype_regex, r.fstype)
    /\ args.options_regex # NULL => regexec(args.options_regex, r.options)
    /\ args.skip_options_regex # NULL => ~regexec(args.skip_options_regex, r.options)
    /\ args.mounts # <<>> => r.to \in Range(args.mounts)

LastIsRecord ==
    /\ last.called /\ pc = "enumerate"
    /\ last.from # NULL /\ last.to # NULL
    /\ last.fstype # NULL /\ last.options # NULL

RootfsExcluded ==
    platform = "linux" =>
        /\ (last.called /\ last.fstype = str_rootfs) =>
              /\ last.ret = -1 /\ last.stage = "rootfs"
              /\ pc = "enumerate" => nodes = last.before
        /\ (\A mnt \in mnts : record_of(mnt).fstype = str_rootfs) =>
              nodes = <<>> /\ out = <<>>

RootfsWitness ==
    /\ platform = "linux" /\ pc = "enumerate"
    /\ last.called /\ last.fstype = str_rootfs
    /\ args.fstype_regex = re_fs
    /\ args.mounts = <<s_slash>> /\ last.to = s_slash

\* C6: the point filter runs over the values of the reversed set; a value is
\* emitted if and only if it matches pointInclude (if set) and does not match
\* pointExclude (if set); a value that fails is skipped and the later values
\* are still evaluated.
PointFilterPass ==
    /\ (pc = "output" /\ ~quiet) => out = SurvivorSeq(SubSeq(nodes, 1, i - 1))
    /\ (NormalExit /\ ~quiet) => out = SurvivorSeq(nodes)
    /\ (pc = "output" \/ NormalExit) =>
          (result = "EXIT_SUCCESS" <=>
              \E k \in 1..(i - 1) : Survives(nodes[k]))

SkipThenEmitWitness ==
    /\ NormalExit /\ ~quiet
    /\ Len(nodes) = 2 /\ ~Survives(nodes[1])
    /\ out = <<nodes[2]>>

\* C7: a table line with fewer than four fields is skipped: it is never
\* handed to process_mount, contributes no value, and the enumeration does
\* not end in an error.
MalformedLinesSkipped ==
    platform = "linux" =>
        /\ status # "SIGSEGV"
        /\ ~ub
        /\ last.called => last.options # NULL
        /\ Range(nodes) \subseteq
              {field_of(record_of(mnt), args.mount_type) :
                  mnt \in {e \in mnts : record_of(e).options # NULL}}

\* C8: every compiled regex and every string list is released exactly once
\* before the process exits, on every exit path.
ResourcesReleased ==
    pc = "exited" =>
        /\ heap.dropped = 0
        /\ heap.regfreed = heap.compiled
        /\ args.mounts # <<>> => "mounts" \in heap.lists_freed
        /\ nodes # <<>> => "nodes" \in heap.lists_freed

\* C9: a positional argument that does not begin with '/', a regex that
\* does not compile, or a mount table that cannot be opened ends the
\* invocation at once with a nonzero status, nothing on stdout and, for the
\* first two, no record enumerated.
FatalSetupErrors ==
    /\ \A k \in 1..Len(args.mounts) :
          args.mounts[k] # <<>> /\ Head(args.mounts[k]) = 47
    /\ \A v \in args_regexes \cup {"point_regex", "skip_point_regex"} :
          regex_value(v) # NULL => regcomp(regex_value(v))
    /\ fatal # "none" =>
          /\ pc = "exited" /\ status = "EXIT_FAILURE"
          /\ out = <<>> /\ mnts = {} /\ nodes = <<>> /\ ~last.called
    /\ mnts # {} => fatal = "none"

RelativeAfterAbsoluteWitness ==
    /\ fatal = "not a mount point"
    /\ args.mounts = <<s_slash>>
    /\ status = "EXIT_FAILURE"

\* the names of the table whose flag is set, joined by commas in table order
RECURSIVE JoinNames(_, _)
JoinNames(o, flags) ==
    IF o > Len(optnames) THEN <<>>
    ELSE LET rest == JoinNames(o + 1, flags)
         IN IF optnames[o].o_opt \notin flags THEN rest
            ELSE IF rest = <<>> THEN optnames[o].o_name
            ELSE optnames[o].o_name \o <<44>> \o rest

\* C10: the options string of an entry is the names of the table entries
\* whose flag is set in the entry's visible flags, joined by commas in table
\* order; with no flag set it is the empty string, not an absent value.
OptionsString ==
    (platform = "bsd" /\ last.called) =>
        last.options = JoinNames(1, last.mnt.f_flags \cap MNT_VISFLAGMASK)

====
